---- MODULE Spec2Model ----
(***************************************************************************)
(* cryptoticker (src/main.rs): the cache-validated fetch (fetch_ticker,    *)
(* print_ticker) and the render loop of main.  The program is single       *)
(* threaded; the environment is the price API (the outcome of each GET),   *)
(* the cache directory (one file per ticker name) and the wall clock.      *)
(* Argument parsing and the cache-directory lookup (app_root) are not      *)
(* modelled: the run starts at the loop of main with the parsed values.    *)
(* The clock is read at the start of the run and advances in sleep; a pass *)
(* is taken to be short against the ages that matter (around TTL).         *)
(***************************************************************************)
EXTENDS Integers, Sequences, FiniteSets, TLC

(* ------------------------------ bounds -------------------------------- *)
\* longest TICKER list
MaxTickers == 2
\* largest clock value, in seconds
MaxNow == 1801
\* largest number of passes of the loop of main that is followed
MaxPasses == 2
\* longest JSON array in a response body
MaxArr == 1

(* ------------------------- program constants -------------------------- *)
\* Duration::from_secs(1800), the age below which a cache file is used
TTL == 1800
\* default_value("90") of --interval-time
DefaultIntervalTime == 90

Names == {"bitcoin", "litecoin"}
\* the price strings the API returns
Prices == {"51000.0"}
IntervalTimes == {0, DefaultIntervalTime}

\* The clock values that are followed: those around the multiples of TTL.
Instants ==
    {t \in {k * TTL + d : k \in 0..((MaxNow \div TTL) + 1), d \in {-1, 0, 1}} :
        0 <= t /\ t <= MaxNow}

(* ---------------------- Currency and its JSON form -------------------- *)
\* Option<String>
None == [some |-> FALSE, s |-> ""]
Some(x) == [some |-> TRUE, s |-> x]

\* struct Currency, reduced to the fields the program reads: id, price_usd.
Currency(id, price) == [id |-> id, price_usd |-> price]
NoTicker == Currency("", None)

\* A JSON object of the API or of a cache file: the price_usd member is
\* absent, the literal null, or a string.
JsonPrices == {[t |-> "absent", s |-> ""], [t |-> "null", s |-> ""]}
                \cup {[t |-> "str", s |-> p] : p \in Prices}
JsonObjs(name) == {[id |-> name, price_usd |-> jp] : jp \in JsonPrices}
NoObj == [id |-> "", price_usd |-> [t |-> "absent", s |-> ""]]

\* serde Deserialize for Currency: an absent or null Option member is None.
FromJson(obj) ==
    Currency(obj.id, IF obj.price_usd.t = "str" THEN Some(obj.price_usd.s) ELSE None)

\* serde Serialize for Currency: None is written as null.
ToJson(c) ==
    [id |-> c.id,
     price_usd |-> IF c.price_usd.some THEN [t |-> "str", s |-> c.price_usd.s]
                                       ELSE [t |-> "null", s |-> ""]]

(* ------------------------------ cache files --------------------------- *)
\* content kinds: "json" (a serialized Currency), "garbage" (does not
\* deserialize), "truncated" (created, write not completed).
NoFile == [exists |-> FALSE, mtime |-> 0, k |-> "none", obj |-> NoObj]
JsonFile(mtime, obj) == [exists |-> TRUE, mtime |-> mtime, k |-> "json", obj |-> obj]
BadFile(mtime, k) == [exists |-> TRUE, mtime |-> mtime, k |-> k, obj |-> NoObj]

\* fs::metadata(..).modified().elapsed(): Err when mtime is later than now.
Elapsed(mtime, t) ==
    IF mtime <= t THEN [ok |-> TRUE, d |-> t - mtime]
                  ELSE [ok |-> FALSE, d |-> mtime - t]

(* --------------------------- the environment -------------------------- *)
\* The outcome of one GET: transport ok, success status, body readable, and
\* the body: not JSON, or a JSON array of objects.
Arrays(name) ==
    UNION {[1..n -> JsonObjs(name)] : n \in 0..MaxArr}
Bodies(name) ==
    {[valid |-> FALSE, items |-> <<>>]}
        \cup {[valid |-> TRUE, items |-> a] : a \in Arrays(name)}
NetOutcomes(name) ==
    {[transport |-> FALSE, status |-> FALSE, readok |-> FALSE,
      body |-> [valid |-> FALSE, items |-> <<>>]],
     [transport |-> TRUE, status |-> FALSE, readok |-> FALSE,
      body |-> [valid |-> FALSE, items |-> <<>>]],
     [transport |-> TRUE, status |-> TRUE, readok |-> FALSE,
      body |-> [valid |-> FALSE, items |-> <<>>]]}
        \cup {[transport |-> TRUE, status |-> TRUE, readok |-> TRUE, body |-> b] :
                b \in Bodies(name)}
NoNet == [transport |-> FALSE, status |-> FALSE, readok |-> FALSE,
          body |-> [valid |-> FALSE, items |-> <<>>]]
\* File::create / to_writer: "ok", "create" (create fails), "write" (the
\* file is created and the write fails).
WriteOutcomes == {"ok", "create", "write"}

(* ------------------------------- output ------------------------------- *)
Tok(k, a, v, n) == [k |-> k, a |-> a, v |-> v, n |-> n]

(* ----------------------------- fetch_ticker --------------------------- *)
\* The value of one call: res is "ok", "err" or "panic"; file is the cache
\* file after the call; lines are the lines printed.
Ret(res, err, ticker, file, wrote, lines) ==
    [res |-> res, err |-> err, ticker |-> ticker, file |-> file,
     wrote |-> wrote, lines |-> lines]

\* Variant of fetch_ticker: File::create moved before the GET.
FetchTickerCreatesFirst(name, cache_file, dbg, net, io, file, t) ==
    LET l1 == IF dbg THEN <<Tok("dbg", name, "retrieving latest", 0)>> ELSE <<>>
        l2 == IF dbg /\ cache_file THEN <<Tok("dbg", name, "stored in cache", 0)>> ELSE <<>>
        made == IF cache_file /\ io # "create" THEN BadFile(t, "truncated") ELSE file
        w == cache_file /\ io # "create"
    IN  IF cache_file /\ io = "create" THEN Ret("err", "io", NoTicker, file, FALSE, l2)
        ELSE IF ~net.transport THEN Ret("err", "reqwest", NoTicker, made, w, l2 \o l1)
        ELSE IF ~net.status THEN Ret("err", "not valid", NoTicker, made, w, l2 \o l1)
        ELSE IF ~net.readok THEN Ret("err", "io", NoTicker, made, w, l2 \o l1)
        ELSE IF ~net.body.valid THEN Ret("err", "serde_json", NoTicker, made, w, l2 \o l1)
        ELSE IF Len(net.body.items) = 0 THEN Ret("panic", "remove", NoTicker, made, w, l2 \o l1)
        ELSE LET ticker == FromJson(net.body.items[1])
             IN  IF ~cache_file THEN Ret("ok", "", ticker, file, FALSE, l1)
                 ELSE IF io = "write"
                      THEN Ret("err", "serde_json", NoTicker, made, TRUE, l2 \o l1)
                 ELSE Ret("ok", "", ticker, JsonFile(t, ToJson(ticker)), TRUE, l2 \o l1)

\* fetch_ticker(name, cache_file, debug): cache_file is TRUE for Some(path of
\* name) and FALSE for None; net and io are the outcomes of the GET and of
\* the cache write, file is the cache file of name, t the clock.  An empty
\* array makes tickers.remove(0) panic.
FetchTicker(name, cache_file, dbg, net, io, file, t) ==
    LET l1 == IF dbg THEN <<Tok("dbg", name, "retrieving latest", 0)>> ELSE <<>>
        l2 == IF dbg /\ cache_file THEN <<Tok("dbg", name, "stored in cache", 0)>> ELSE <<>>
    IN  IF ~net.transport THEN Ret("err", "reqwest", NoTicker, file, FALSE, l1)
        ELSE IF ~net.status THEN Ret("err", "not valid", NoTicker, file, FALSE, l1)
        ELSE IF ~net.readok THEN Ret("err", "io", NoTicker, file, FALSE, l1)
        ELSE IF ~net.body.valid THEN Ret("err", "serde_json", NoTicker, file, FALSE, l1)
        ELSE IF Len(net.body.items) = 0 THEN Ret("panic", "remove", NoTicker, file, FALSE, l1)
        ELSE LET ticker == FromJson(net.body.items[1])
             IN  IF ~cache_file THEN Ret("ok", "", ticker, file, FALSE, l1)
                 ELSE IF io = "create" THEN Ret("err", "io", NoTicker, file, FALSE, l1 \o l2)
                 ELSE IF io = "write"
                      THEN Ret("err", "serde_json", NoTicker, BadFile(t, "truncated"), TRUE, l1 \o l2)
                 ELSE Ret("ok", "", ticker, JsonFile(t, ToJson(ticker)), TRUE, l1 \o l2)

\* The outcome of a GET as fetch_ticker tells them apart.
NetKind(net) ==
    IF ~net.transport THEN "transport"
    ELSE IF ~net.status THEN "status"
    ELSE IF ~net.readok THEN "read"
    ELSE IF ~net.body.valid THEN "json"
    ELSE IF Len(net.body.items) = 0 THEN "empty"
    ELSE "record"

\* The record a GET delivers: the first element of the array.
NetRecord(net) ==
    IF NetKind(net) = "record" THEN FromJson(net.body.items[1]) ELSE NoTicker

(* ----------------------------- print_ticker --------------------------- *)
\* Variant: the cache path is passed whatever `cache` is.
CacheFileAlways(cache) == TRUE

\* The cache_file argument print_ticker passes to fetch_ticker: None when
\* cache is false, Some(cache_dir/name.json) otherwise.
CacheFile(cache) == cache

\* "ethereum" -> "eth", "bitcoin" -> "btc", else the name
ShortName(name) ==
    IF name = "ethereum" THEN "eth" ELSE IF name = "bitcoin" THEN "btc" ELSE name

\* ticker.price_usd.unwrap_or("null")
PriceText(ticker) == IF ticker.price_usd.some THEN ticker.price_usd.s ELSE "null"

\* The `ticker` of print_ticker, or the error its ? returns: a Ret, with the
\* number of GETs, whether the cache file's metadata was read and whether
\* the file was opened.
Resolved(r, fetches, statted, opened) ==
    r @@ [fetches |-> fetches, statted |-> statted, opened |-> opened]

\* Variants of the guard: <= for <, and > for <.
IsFreshOrEqual(e) == e.ok /\ e.d <= TTL
IsFreshInverted(e) == e.ok /\ e.d > TTL

\* Ok(elapsed) if elapsed < Duration::from_secs(1800)
IsFresh(e) == e.ok /\ e.d < TTL

Resolve(name, cache, dbg, net, ioRead, io, file, t) ==
    IF ~cache
    THEN Resolved(FetchTicker(name, CacheFile(cache), dbg, net, io, file, t), 1, FALSE, FALSE)
    ELSE IF file.exists /\ IsFresh(Elapsed(file.mtime, t))
         THEN LET left == TTL - Elapsed(file.mtime, t).d
                  l == IF dbg THEN <<Tok("dbg", name, "pulled from cache", left)>> ELSE <<>>
              IN  IF ~ioRead
                  THEN Resolved(Ret("err", "io", NoTicker, file, FALSE, l), 0, TRUE, TRUE)
                  ELSE IF file.k # "json"
                  THEN Resolved(Ret("err", "serde_json", NoTicker, file, FALSE, l), 0, TRUE, TRUE)
                  ELSE Resolved(Ret("ok", "", FromJson(file.obj), file, FALSE, l), 0, TRUE, TRUE)
         ELSE Resolved(FetchTicker(name, CacheFile(cache), dbg, net, io, file, t), 1, TRUE, FALSE)

\* print_ticker: the resolution, then the token printed on success.
PrintTicker(name, cache, dbg, net, ioRead, io, file, t) ==
    LET r == Resolve(name, cache, dbg, net, ioRead, io, file, t)
    IN  [r EXCEPT !.lines =
            IF r.res = "ok"
            THEN @ \o <<Tok("tok", ShortName(name), PriceText(r.ticker), 0)>>
            ELSE @]

(* --------------------------------- main ------------------------------- *)
\* Variant: `interval` passed for `!interval`.
UseCacheWhenRepeating(repeat) == repeat

\* The cache argument main passes to print_ticker: !interval.
UseCache(repeat) == ~repeat

\* The map_err closure of main: the error detail when debugging, else
\* "{arg}:error ".
ErrorLines(arg, dbg, err) ==
    IF dbg THEN <<Tok("err", arg, err, 0)>> ELSE <<Tok("tok", arg, "error", 0)>>

\* What is kept of a printed line in `out`: its kind and its name.
Mark(line) == [k |-> line.k, a |-> line.a]
Marks(lines) == [i \in 1..Len(lines) |-> Mark(lines[i])]

VARIABLES
    tickers,    \* the TICKER arguments
    interval,   \* --interval
    debug,      \* --debug or --verbose
    time,       \* --interval-time
    pc,         \* "pass", "sleep", "done", "crashed"
    idx,        \* position of the for loop in tickers
    passes,     \* passes of the loop begun
    sleeps,     \* sleeps completed
    now,        \* the wall clock, in seconds
    cache,      \* the cache directory: the file of each name
    out,        \* what the current pass has printed, by kind and name
    calls,      \* the names print_ticker was called with in the current pass
    lastCall    \* the latest print_ticker call of the pass: its arguments, the
                \* clock and the cache directory before it (t, pre), what the
                \* environment answered (net, fresh, io, ioRead), what it did

vars == <<tickers, interval, debug, time, pc, idx, passes, sleeps, now, cache,
          out, calls, lastCall>>

NoCall ==
    [valid |-> FALSE, name |-> "", cache |-> FALSE, t |-> 0,
     pre |-> [n \in Names |-> NoFile],
     fetches |-> 0, statted |-> FALSE, opened |-> FALSE, wrote |-> FALSE,
     res |-> "", err |-> "", ticker |-> NoTicker, printed |-> <<>>,
     net |-> "none", fresh |-> NoTicker, io |-> "none", ioRead |-> TRUE]

TickerLists == UNION {[1..n -> Names] : n \in 1..MaxTickers}

\* Cache files left by earlier runs, written at 0 or at 1.
InitFiles(name) ==
    {NoFile, BadFile(0, "garbage")}
        \cup {JsonFile(m, [id |-> name, price_usd |-> [t |-> "str", s |-> "50000.0"]]) :
                m \in {0, 1}}

\* The clock when the run starts: 0, where a file written at 1 carries a
\* modification time in the future, or a value around TTL.
InitNows == {0, TTL - 1, TTL, TTL + 1}

\* The outcomes of the environment for one call.  The open of the cache file
\* is only reached without a GET, the cache write only after a GET that
\* delivered a record, so the outcomes that are not reached are held fixed.
EnvOutcomes(name) ==
    {e \in [net : NetOutcomes(name), ioRead : BOOLEAN, io : WriteOutcomes] :
        /\ ~e.ioRead => (e.net = NoNet /\ e.io = "ok")
        /\ NetKind(e.net) # "record" => e.io = "ok"}

Init ==
    /\ tickers \in TickerLists
    /\ interval \in BOOLEAN
    /\ debug \in BOOLEAN
    /\ time \in IntervalTimes
    /\ ~interval => time = DefaultIntervalTime
    /\ pc = "pass"
    /\ idx = 1
    /\ passes = 1
    /\ sleeps = 0
    /\ now \in InitNows
    /\ cache \in {f \in [Names -> UNION {InitFiles(n) : n \in Names}] :
                    /\ \A n \in Names : f[n] \in InitFiles(n)
                    /\ Cardinality({n \in Names : f[n].exists}) <= 1}
    /\ out = <<>>
    /\ calls = <<>>
    /\ lastCall = NoCall

\* One iteration of `for arg in &tickers`: print_ticker(arg, !interval, debug)
\* and the map_err closure.  A panic ends the process.
Call ==
    /\ pc = "pass"
    /\ idx <= Len(tickers)
    /\ \E e \in EnvOutcomes(tickers[idx]) :
         \E r \in {PrintTicker(tickers[idx], UseCache(interval), debug,
                               e.net, e.ioRead, e.io, cache[tickers[idx]], now)} :
           LET arg == tickers[idx]
               use == UseCache(interval)
               printed == r.lines \o (IF r.res = "err" THEN ErrorLines(arg, debug, r.err)
                                                       ELSE <<>>)
           IN  /\ cache' = [cache EXCEPT ![arg] = r.file]
               /\ out' = out \o Marks(printed)
               /\ calls' = Append(calls, arg)
               /\ lastCall' =
                    [valid |-> TRUE, name |-> arg, cache |-> use, t |-> now,
                     pre |-> cache,
                     fetches |-> r.fetches, statted |-> r.statted, opened |-> r.opened,
                     wrote |-> r.wrote, res |-> r.res, err |-> r.err,
                     ticker |-> r.ticker, printed |-> printed,
                     net |-> IF r.fetches = 1 THEN NetKind(e.net) ELSE "none",
                     fresh |-> IF r.fetches = 1 THEN NetRecord(e.net) ELSE NoTicker,
                     io |-> IF r.fetches = 1 /\ NetKind(e.net) = "record" /\ CacheFile(use)
                            THEN e.io ELSE "none",
                     ioRead |-> IF r.opened THEN e.ioRead ELSE TRUE]
               /\ IF r.res = "panic"
                  THEN pc' = "crashed" /\ idx' = idx
                  ELSE pc' = "pass" /\ idx' = idx + 1
    /\ UNCHANGED <<tickers, interval, debug, time, passes, sleeps, now>>

\* After the for loop: print "\x08", flush, and break when not repeating.
EndOnce ==
    /\ pc = "pass"
    /\ idx > Len(tickers)
    /\ ~interval
    /\ out' = Append(out, [k |-> "bs", a |-> ""])
    /\ pc' = "done"
    /\ UNCHANGED <<tickers, interval, debug, time, idx, passes, sleeps, now, cache,
                   calls, lastCall>>

\* After the for loop when repeating: print "\x08", flush, print "\r".
EndRepeat ==
    /\ pc = "pass"
    /\ idx > Len(tickers)
    /\ interval
    /\ out' = out \o <<[k |-> "bs", a |-> ""], [k |-> "cr", a |-> ""]>>
    /\ pc' = "sleep"
    /\ UNCHANGED <<tickers, interval, debug, time, idx, passes, sleeps, now, cache,
                   calls, lastCall>>

\* sleep(Duration::from_secs(time)), which lasts at least that long; the
\* next pass then begins.
Sleep ==
    /\ pc = "sleep"
    /\ passes < MaxPasses
    /\ \E t \in Instants :
         /\ t >= now + time
         /\ now' = t
    /\ pc' = "pass"
    /\ idx' = 1
    /\ passes' = passes + 1
    /\ sleeps' = sleeps + 1
    /\ out' = <<>>
    /\ calls' = <<>>
    /\ lastCall' = NoCall
    /\ UNCHANGED <<tickers, interval, debug, time, cache>>

Next == Call \/ EndOnce \/ EndRepeat \/ Sleep

Spec == Init /\ [][Next]_vars

(* ------------------------- the latest call --------------------------- *)
\* The cache file of the latest call's name before and after the call.  The
\* cache directory changes in Call only, so `cache` is the directory as the
\* latest call left it.
Before == lastCall.pre[lastCall.name]
After == cache[lastCall.name]
Cached == lastCall.valid /\ lastCall.cache
\* age of the cache file at the call, defined when mtime <= t
Age == lastCall.t - Before.mtime
HitCase == Cached /\ Before.exists /\ Before.mtime <= lastCall.t /\ Age < TTL
StaleCase == Cached /\ (~Before.exists \/ (Before.mtime <= lastCall.t /\ Age >= TTL))
HoldsRecord(file, rec, t) ==
    file.exists /\ file.k = "json" /\ FromJson(file.obj) = rec /\ file.mtime = t
PassOver == pc \in {"sleep", "done", "crashed"}
Tokens == SelectSeq(out, LAMBDA m : m.k = "tok")

(* ------------------------------- claims ------------------------------- *)

\* C1: a call with caching enabled on a cache file of age < TTL performs no
\* GET, does not write the cache file and returns the record stored in the
\* file.  "The record stored" is the content deserialized, for a file that
\* opens and holds a record; a file that does not yields the read's error,
\* again without a GET or a write.
C1_CacheHit ==
    HitCase =>
        /\ lastCall.fetches = 0
        /\ ~lastCall.wrote
        /\ cache = lastCall.pre
        /\ IF lastCall.ioRead /\ Before.k = "json"
           THEN lastCall.res = "ok" /\ lastCall.ticker = FromJson(Before.obj)
           ELSE lastCall.res = "err"

\* A hit at age TTL - 1 that returned the stored record.
C1_Witness ==
    /\ HitCase
    /\ Age = TTL - 1
    /\ lastCall.res = "ok"
    /\ lastCall.ticker = FromJson(Before.obj)
    /\ lastCall.fetches = 0

\* C2: a call with caching enabled on a cache file that is absent or of age
\* >= TTL (age = TTL included) performs exactly one GET and does not read the
\* file; when fetch_ticker succeeds (the GET delivers a record and the write
\* of the cache file goes through) the call returns the fresh record, and
\* the cache file of the name then holds that record with age 0.
C2_CacheMiss ==
    StaleCase =>
        /\ lastCall.fetches = 1
        /\ ~lastCall.opened
        /\ (lastCall.net = "record" /\ lastCall.io = "ok") =>
              /\ lastCall.res = "ok"
              /\ lastCall.wrote
              /\ lastCall.ticker = lastCall.fresh
              /\ HoldsRecord(After, lastCall.fresh, lastCall.t)

\* A refresh at age exactly TTL that replaced the stored record.
C2_Witness ==
    /\ StaleCase
    /\ Before.exists
    /\ Age = TTL
    /\ lastCall.res = "ok"
    /\ HoldsRecord(After, lastCall.fresh, lastCall.t)
    /\ After # Before

\* C3: with caching enabled and a cache file that opens and whose content
\* does not deserialize, of any age, the call performs exactly one GET and,
\* when the GET delivers a record that can be written, overwrites the file
\* with it and returns it instead of an error.
C3_Claim ==
    (Cached /\ Before.exists /\ Before.k # "json" /\ lastCall.ioRead) =>
        /\ lastCall.fetches = 1
        /\ (lastCall.net = "record" /\ lastCall.io = "ok") =>
              /\ lastCall.res = "ok"
              /\ lastCall.ticker = lastCall.fresh
              /\ HoldsRecord(After, lastCall.fresh, lastCall.t)

\* C4: a call with caching disabled performs exactly one GET and neither
\* reads nor writes a cache file: every cache file is as before the call,
\* whether the GET succeeds or fails.
C4_CacheDisabled ==
    (lastCall.valid /\ ~lastCall.cache) =>
        /\ lastCall.fetches = 1
        /\ ~lastCall.statted
        /\ ~lastCall.opened
        /\ ~lastCall.wrote
        /\ cache = lastCall.pre

\* A call with caching disabled that obtained a record while a cache file of
\* its name existed.
C4_Witness ==
    /\ lastCall.valid
    /\ ~lastCall.cache
    /\ Before.exists
    /\ lastCall.res = "ok"
    /\ lastCall.net = "record"
    /\ cache = lastCall.pre

\* C5: every pass calls print_ticker for every ticker once, in order,
\* whatever the outcomes; without debug the pass prints one token per ticker,
\* "{arg}:error " for a failed one.
C5_Claim ==
    /\ PassOver =>
          /\ calls = tickers
          /\ ~debug =>
                /\ Len(Tokens) = Len(tickers)
                /\ \A i \in 1..Len(tickers) :
                      Tokens[i].a \in {tickers[i], ShortName(tickers[i])}
    /\ (lastCall.valid /\ ~debug /\ lastCall.res # "ok") =>
          lastCall.printed = <<Tok("tok", lastCall.name, "error", 0)>>

\* C6: a success response whose body is an empty array makes the call
\* return an error: no crash, no cache write.
C6_Claim ==
    (lastCall.valid /\ lastCall.net = "empty") =>
        /\ lastCall.res = "err"
        /\ pc # "crashed"
        /\ cache = lastCall.pre

\* C7: with caching enabled and a cache file modified in the future, the
\* call returns an error: no GET as for an ordinary miss, no crash.
C7_Claim ==
    (Cached /\ Before.exists /\ Before.mtime > lastCall.t) =>
        /\ lastCall.res = "err"
        /\ lastCall.fetches = 0
        /\ pc # "crashed"

\* C8, as stated: in a run that repeats, every call has caching enabled, so
\* a call on a fresh cache file performs no GET.
C8_Original ==
    (lastCall.valid /\ interval) =>
        /\ lastCall.cache
        /\ (Before.exists /\ Before.mtime <= lastCall.t /\ Age < TTL) => lastCall.fetches = 0

\* C8, amended: caching is enabled exactly when the run does not repeat; in
\* a run that repeats every call has caching disabled and performs a GET, a
\* fresh cache file notwithstanding.
C8_CachingPolicy ==
    lastCall.valid =>
        /\ lastCall.cache <=> ~interval
        /\ interval => lastCall.fetches = 1 /\ ~lastCall.statted

\* A call of the second pass of a repeating run, on a fresh cache file.
C8_Witness ==
    /\ lastCall.valid
    /\ interval
    /\ passes = 2
    /\ Before.exists /\ Before.mtime <= lastCall.t /\ Age < TTL
    /\ lastCall.fetches = 1
    /\ ~lastCall.cache

\* C9: without repetition the loop makes exactly one pass over the tickers
\* and ends without sleeping, whatever the outcomes; with repetition it never
\* ends, and a sleep lies between every two passes.
C9_Claim ==
    /\ sleeps = passes - 1
    /\ ~interval =>
          /\ passes = 1
          /\ pc \in {"pass", "done"}
          /\ pc = "done" => calls = tickers
    /\ interval => pc \in {"pass", "sleep"}

\* C10: a call with caching enabled whose GET delivers no record leaves the
\* cache directory as it was; a cache file changes only in a call for its
\* name whose GET delivered a record; and after such a failed call the next
\* call for the same name performs a GET again.
C10_FailedFetch ==
    /\ [](lastCall.valid =>
            /\ (lastCall.fetches = 1 /\ lastCall.net # "record") => cache = lastCall.pre
            /\ \A n \in Names :
                  cache[n] # lastCall.pre[n] =>
                      n = lastCall.name /\ lastCall.cache /\ lastCall.net = "record")
    /\ [][(/\ Cached
           /\ lastCall.fetches = 1
           /\ lastCall.net # "record"
           /\ Len(calls') = Len(calls) + 1
           /\ lastCall'.name = lastCall.name) => lastCall'.fetches = 1]_vars

\* Two calls in a row for one name with caching enabled, the file stale
\* before the second, whose GET failed and left the file as it was.
C10_Witness ==
    /\ Cached
    /\ Len(calls) = 2
    /\ calls[1] = calls[2]
    /\ StaleCase
    /\ Before.exists
    /\ lastCall.fetches = 1
    /\ lastCall.net \in {"transport", "status", "json"}
    /\ After = Before

====
